---------------------------- MODULE Spec2Model ----------------------------
(***************************************************************************)
(* MmkvHostObject (cpp/MmkvHostObject.cpp): the JSI host object that       *)
(* exposes an MMKV instance to the script.  The model covers the           *)
(* constructor, the destructor, getPropertyNames, getMMKVMode and get with *)
(* every host function it creates.  The MMKV engine is an external         *)
(* collaborator: it is modelled as a key/value map with an encryption key, *)
(* reached only through the calls the host object makes.                   *)
(***************************************************************************)
EXTENDS Integers, Sequences, FiniteSets

VARIABLES
  hostState,   \* "none" | "alive" | "failed" | "destroyed" | "crashed"
  instance,    \* MmkvHostObject::instance: "nullptr" or "mmkv"
  store,       \* engine content: engine key -> stored value or Absent
  cryptKey,    \* engine encryption key (bytes), <<>> = no encryption
  fetched,     \* property name whose value the script last obtained with get
  op,          \* the last operation the script performed
  result,      \* the jsi::Value the last operation returned
  thrown,      \* what the last operation threw ("none" when it returned)
  calls,       \* the engine operations the last operation performed, in order
  sizeRead,    \* the size_t actualSize returned to the last read of size, else <<>>
  derefDead,   \* the last operation read `instance` through a destroyed host object
  written      \* history: script key -> the value the script last stored, or NoWrite

vars == <<hostState, instance, store, cryptKey, fetched, op, result, thrown,
          calls, sizeRead, derefDead, written>>

---------------------------------------------------------------------------
(* Bounds of the model and constants of the program *)

\* largest argument count a host function is called with
MaxCount == 3
\* longest encryption key the constructor accepts without complaint
EncKeyMax == 16

---------------------------------------------------------------------------
(* jsi::Value: the script's values *)

JsUndefined == [t |-> "undefined", v |-> 0]
JsObject == [t |-> "object", v |-> 0]              \* an object that is no ArrayBuffer
JsBool(b) == [t |-> "boolean", v |-> b]
JsNumber(n) == [t |-> "number", v |-> n]
JsString(s) == [t |-> "string", v |-> s]           \* s: sequence of UTF-16 code units
JsArrayBuffer(b) == [t |-> "ArrayBuffer", v |-> b] \* b: sequence of bytes
JsArray(s) == [t |-> "array", v |-> s]             \* s: the set of elements
JsFunction(n) == [t |-> "function", v |-> n]

\* the strings "a" and "e-acute", as UTF-16 code units
StrA == <<97>>
StrE == <<233>>
JsStrings == {StrA, StrE}
\* numbers are doubles; the model uses two of them
Numbers == {0, 3}
Buffers == {<<0, 255>>}

JSValues ==
  {JsString(s) : s \in JsStrings} \cup {JsBool(b) : b \in BOOLEAN}
    \cup {JsNumber(n) : n \in Numbers} \cup {JsArrayBuffer(b) : b \in Buffers}
    \cup {JsUndefined, JsObject}

FirstArgs == {JsString(s) : s \in JsStrings} \cup {JsNumber(0), JsUndefined}

\* the argument lists of a call: count values, the first from `firsts`, the
\* second from `seconds`, any further one undefined
ArgLists(firsts, seconds) ==
  UNION {
    {[i \in 1..n |-> IF i = 1 THEN a ELSE IF i = 2 THEN b ELSE JsUndefined] :
        a \in firsts, b \in seconds}
    : n \in 0..MaxCount}

isString(x) == x.t = "string"
isBool(x) == x.t = "boolean"
isNumber(x) == x.t = "number"
isUndefined(x) == x.t = "undefined"
isObject(x) == x.t \in {"object", "ArrayBuffer"}
isArrayBuffer(x) == x.t = "ArrayBuffer"

---------------------------------------------------------------------------
(* jsi::String::utf8 and jsi::String::createFromUtf8 *)

RECURSIVE utf8(_)
utf8(s) ==
  IF s = <<>> THEN <<>>
  ELSE LET c == Head(s)
           enc == IF c < 128 THEN <<c>>
                  ELSE IF c < 2048 THEN <<192 + (c \div 64), 128 + (c % 64)>>
                  ELSE <<224 + (c \div 4096), 128 + ((c \div 64) % 64), 128 + (c % 64)>>
       IN enc \o utf8(Tail(s))

RECURSIVE createFromUtf8(_)
createFromUtf8(b) ==
  IF b = <<>> THEN <<>>
  ELSE LET h == Head(b)
       IN IF h < 128 THEN <<h>> \o createFromUtf8(Tail(b))
          ELSE IF h < 224
            THEN <<(h - 192) * 64 + (b[2] - 128)>> \o createFromUtf8(SubSeq(b, 3, Len(b)))
            ELSE <<(h - 224) * 4096 + (b[2] - 128) * 64 + (b[3] - 128)>>
                   \o createFromUtf8(SubSeq(b, 4, Len(b)))

\* A size_t is written as its four 16-bit limbs, least significant first.
\* static_cast<int>(size_t): the low 32 bits, read as two's complement
staticCastInt(size) ==
  IF size[2] < 32768 THEN size[2] * 65536 + size[1]
  ELSE (size[2] - 65536) * 65536 + size[1]

\* the size_t whose value is the number n >= 0 (n is below 2^31)
sizeOfNumber(n) == <<n % 65536, n \div 65536, 0, 0>>


---------------------------------------------------------------------------
(* The MMKV engine, as the host object uses it *)

Absent == [t |-> "absent", v |-> 0]
EngineKeys == {utf8(s) : s \in JsStrings}

\* what a value of each engine type can be
EngineValues(type) ==
  IF type = "bool" THEN {[t |-> "bool", v |-> b] : b \in BOOLEAN}
  ELSE IF type = "double" THEN {[t |-> "double", v |-> n] : n \in Numbers}
  ELSE IF type = "string" THEN {[t |-> "string", v |-> utf8(s)] : s \in JsStrings}
  ELSE {[t |-> "bytes", v |-> b] : b \in Buffers}

\* the sizes actualSize may report: small ones, the ends of int, the end of size_t
SizeValues ==
  {<<0, 0, 0, 0>>, <<4096, 0, 0, 0>>, <<65535, 32767, 0, 0>>, <<0, 32768, 0, 0>>,
   <<4096, 0, 1, 0>>, <<65535, 65535, 65535, 65535>>}

\* MMKV::mmkvWithID: the instance, or nullptr when the engine refuses
MMKV_mmkvWithID == {"mmkv", "nullptr"}

MMKV_set(st, key, value) == [st EXCEPT ![key] = value]

\* MMKV::getBool / getDouble / getString / getBytes: the outcomes (hasValue, value).
\* A key holding a value of another type decodes to whatever its bytes give.
MMKV_get(st, key, type) ==
  IF st[key] = Absent THEN {[hasValue |-> FALSE, value |-> Absent]}
  ELSE IF st[key].t = type THEN {[hasValue |-> TRUE, value |-> st[key]]}
  ELSE {[hasValue |-> FALSE, value |-> Absent]}
         \cup {[hasValue |-> TRUE, value |-> x] : x \in EngineValues(type)}

MMKV_containsKey(st, key) == st[key] # Absent

MMKV_removeValueForKey(st, key) == [st EXCEPT ![key] = Absent]

MMKV_allKeys(st) == {k \in DOMAIN st : st[k] # Absent}

MMKV_clearAll(st) == [k \in DOMAIN st |-> Absent]

\* MMKV::reKey: the new encryption key; the content is kept
MMKV_reKey(key) == key

---------------------------------------------------------------------------
(* MmkvHostObject *)

NoWrite == [t |-> "nowrite", v |-> 0]

\* MMKVConfig: id, optional path, optional encryptionKey, optional mode
Ids == {"", "mmkv.default"}
Paths == {<<>>, <<112>>}
EncryptionKeys == {<<>>, [i \in 1..EncKeyMax |-> 107], [i \in 1..(EncKeyMax + 1) |-> 107]}
Modes == {"unset", "SINGLE_PROCESS", "MULTI_PROCESS", "INVALID"}
Configs == [id : Ids, path : Paths, encryptionKey : EncryptionKeys, mode : Modes]

getPropertyNames ==
  <<"set", "getBoolean", "getBuffer", "getString", "getNumber", "contains",
    "delete", "getAllKeys", "deleteAll", "recrypt", "trim", "size">>

\* the names get compares propName with, in its order
HostFunctions ==
  {"set", "getBoolean", "getNumber", "getString", "getBuffer", "contains",
   "delete", "getAllKeys", "clearAll", "recrypt", "trim"}

\* the property names the script asks for
PropNames ==
  {getPropertyNames[i] : i \in 1..Len(getPropertyNames)} \cup HostFunctions \cup {"toString"}

\* getMMKVMode: the engine mode, or "throw" for a value outside the enum
getMMKVMode(config) ==
  IF config.mode = "unset" THEN "MMKV_SINGLE_PROCESS"
  ELSE IF config.mode = "SINGLE_PROCESS" THEN "MMKV_SINGLE_PROCESS"
  ELSE IF config.mode = "MULTI_PROCESS" THEN "MMKV_MULTI_PROCESS"
  ELSE "throw"

\* what get returns for propName: a host function, the size number, or undefined
getKind(propName) ==
  IF propName \in HostFunctions THEN "function"
  ELSE IF propName = "size" THEN "number"
  ELSE "undefined"

\* keyArgOk with the count check weakened to `count < 1`
keyArgOkAtLeastOne(args) == Len(args) >= 1 /\ isString(args[1])

\* `count != 1 || !arguments[0].isString()` does not hold
keyArgOk(args) == Len(args) = 1 /\ isString(args[1])

\* `count != 2 || !arguments[0].isString()` does not hold
setArgsOk(args) == Len(args) = 2 /\ isString(args[1])

\* arguments[0].asString(runtime).utf8(runtime)
keyName(args) == utf8(args[1].v)

\* setValue with the number narrowed to int32_t before it is stored
setValueInt32(value) ==
  IF isBool(value) THEN [t |-> "bool", v |-> value.v]
  ELSE IF isNumber(value) THEN [t |-> "int32", v |-> value.v]
  ELSE IF isString(value) THEN [t |-> "string", v |-> utf8(value.v)]
  ELSE IF isObject(value)
    THEN IF isArrayBuffer(value) THEN [t |-> "bytes", v |-> value.v] ELSE Absent
    ELSE Absent

\* the engine value the set branch stores for `value`, or Absent when it throws
setValue(value) ==
  IF isBool(value) THEN [t |-> "bool", v |-> value.v]
  ELSE IF isNumber(value) THEN [t |-> "double", v |-> value.v]
  ELSE IF isString(value) THEN [t |-> "string", v |-> utf8(value.v)]
  ELSE IF isObject(value)
    THEN IF isArrayBuffer(value) THEN [t |-> "bytes", v |-> value.v] ELSE Absent
    ELSE Absent

\* recryptKey without the isUndefined branch
recryptKeyStringOnly(args) ==
  IF Len(args) # 1 THEN [throw |-> TRUE, key |-> <<>>]
  ELSE IF isString(args[1]) THEN [throw |-> FALSE, key |-> utf8(args[1].v)]
  ELSE [throw |-> TRUE, key |-> <<>>]

\* the recrypt branch's decision: throw, or the key it hands to reKey
recryptKey(args) ==
  IF Len(args) # 1 THEN [throw |-> TRUE, key |-> <<>>]
  ELSE IF isUndefined(args[1]) THEN [throw |-> FALSE, key |-> <<>>]
  ELSE IF isString(args[1]) THEN [throw |-> FALSE, key |-> utf8(args[1].v)]
  ELSE [throw |-> TRUE, key |-> <<>>]

\* trimOps without the clearMemoryCache call
trimOpsTrimOnly == <<"trim">>

\* the engine operations of the trim branch
trimOps == <<"clearMemoryCache", "trim">>

\* the engine operations of the destructor
destructorOps == <<"mmapID", "clearMemoryCache">>

\* the value `this->instance` gives a host function: the field while the host
\* object lives, anything once it is destroyed (a read of freed memory)
thisInstance ==
  IF hostState = "alive" THEN {instance} ELSE {"mmkv", "nullptr"}

---------------------------------------------------------------------------
(* Steps shared by the operations *)

\* the operation threw before touching the engine
Throw(err) ==
  /\ result' = JsUndefined
  /\ thrown' = err
  /\ calls' = <<>>
  /\ derefDead' = FALSE
  /\ UNCHANGED <<hostState, instance, store, cryptKey, written>>

\* a host function reaches `instance->...`: it reads this->instance, and then the
\* engine performs `ops`, leaving content st and key ck, and the function returns
\* res.  A null instance ends the process.
Delegate(ops, st, ck, res, wr) ==
  \E inst \in thisInstance :
    /\ derefDead' = (hostState # "alive")
    /\ instance' = instance
    /\ IF inst = "nullptr"
         THEN /\ hostState' = "crashed"
              /\ thrown' = "crash"
              /\ result' = JsUndefined
              /\ calls' = <<>>
              /\ UNCHANGED <<store, cryptKey, written>>
         ELSE /\ hostState' = hostState
              /\ thrown' = "none"
              /\ result' = res
              /\ calls' = ops
              /\ store' = st
              /\ cryptKey' = ck
              /\ written' = wr

\* the script calls the value it obtained for property `name` with `args`
Called(name, args) ==
  /\ hostState \in {"alive", "destroyed"}
  /\ fetched = name
  /\ op' = [kind |-> "call", name |-> name, args |-> args]
  /\ sizeRead' = <<>>
  /\ UNCHANGED fetched

KeyArgLists == ArgLists(FirstArgs, {JsUndefined})
SetArgLists == ArgLists(FirstArgs, JSValues)
NoArgLists == ArgLists({JsUndefined}, {JsUndefined})

---------------------------------------------------------------------------
(* The operations *)

Init ==
  /\ hostState = "none"
  /\ instance = "nullptr"
  /\ store = [k \in EngineKeys |-> Absent]
  /\ cryptKey = <<>>
  /\ fetched = "none"
  /\ op = [kind |-> "init", name |-> "none", args |-> <<>>]
  /\ result = JsUndefined
  /\ thrown = "none"
  /\ calls = <<>>
  /\ sizeRead = <<>>
  /\ derefDead = FALSE
  /\ written = [s \in JsStrings |-> NoWrite]

\* MmkvHostObject::MmkvHostObject; ret is what MMKV::mmkvWithID returns
MmkvHostObject(config, ret) ==
  /\ hostState = "none"
  /\ op' = [kind |-> "construct", name |-> "MmkvHostObject", args |-> <<config>>]
  /\ result' = JsUndefined
  /\ sizeRead' = <<>>
  /\ derefDead' = FALSE
  /\ UNCHANGED <<store, fetched, written>>
  /\ IF getMMKVMode(config) = "throw"
       THEN /\ thrown' = "Invalid MMKV Mode value!"
            /\ hostState' = "failed"
            /\ calls' = <<>>
            /\ UNCHANGED <<instance, cryptKey>>
       ELSE /\ calls' = <<"mmkvWithID">>
            /\ instance' = ret
            /\ IF ret = "nullptr"
                 THEN /\ hostState' = "failed"
                      /\ UNCHANGED cryptKey
                      /\ thrown' =
                           IF config.id = ""
                             THEN "Failed to create MMKV instance! id cannot be empty!"
                           ELSE IF Len(config.encryptionKey) > EncKeyMax
                             THEN "Failed to create MMKV instance! encryptionKey cannot be longer than 16 bytes!"
                             ELSE "Failed to create MMKV instance!"
                 ELSE /\ hostState' = "alive"
                      /\ cryptKey' = config.encryptionKey
                      /\ thrown' = "none"

\* MmkvHostObject::~MmkvHostObject
Destructor ==
  /\ hostState = "alive"
  /\ op' = [kind |-> "destroy", name |-> "~MmkvHostObject", args |-> <<>>]
  /\ calls' = IF instance # "nullptr" THEN destructorOps ELSE <<>>
  /\ instance' = "nullptr"
  /\ hostState' = "destroyed"
  /\ result' = JsUndefined
  /\ thrown' = "none"
  /\ sizeRead' = <<>>
  /\ derefDead' = FALSE
  /\ UNCHANGED <<store, cryptKey, fetched, written>>

\* MmkvHostObject::get: the script reads property propName of the host object
get(propName) ==
  /\ hostState = "alive"
  /\ op' = [kind |-> "get", name |-> propName, args |-> <<>>]
  /\ fetched' = propName
  /\ thrown' = "none"
  /\ derefDead' = FALSE
  /\ UNCHANGED <<hostState, instance, store, cryptKey, written>>
  /\ IF getKind(propName) = "function"
       THEN /\ result' = JsFunction(propName)
            /\ calls' = <<>>
            /\ sizeRead' = <<>>
       ELSE IF getKind(propName) = "number"
         THEN \E size \in SizeValues :
                /\ sizeRead' = size
                /\ calls' = <<"actualSize">>
                /\ result' = JsNumber(staticCastInt(size))
         ELSE /\ result' = JsUndefined
              /\ calls' = <<>>
              /\ sizeRead' = <<>>

\* the script calls a property value that is no function (undefined, or the size)
callNonFunction(args) ==
  /\ getKind(fetched) # "function"
  /\ fetched \in PropNames
  /\ Called(fetched, args)
  /\ Throw("TypeError")

\* MMKV.set(key, value)
set(args) ==
  /\ Called("set", args)
  /\ IF ~setArgsOk(args) THEN Throw("JSError")
     ELSE IF setValue(args[2]) = Absent THEN Throw("JSError")
     ELSE Delegate(<<"set">>, MMKV_set(store, keyName(args), setValue(args[2])),
                   cryptKey, JsUndefined, [written EXCEPT ![args[1].v] = args[2]])

\* MMKV.getBoolean(key)
getBoolean(args) ==
  /\ Called("getBoolean", args)
  /\ IF ~keyArgOk(args) THEN Throw("JSError")
     ELSE \E r \in MMKV_get(store, keyName(args), "bool") :
            Delegate(<<"getBool">>, store, cryptKey,
                     IF ~r.hasValue THEN JsUndefined ELSE JsBool(r.value.v), written)

\* MMKV.getNumber(key)
getNumber(args) ==
  /\ Called("getNumber", args)
  /\ IF ~keyArgOk(args) THEN Throw("JSError")
     ELSE \E r \in MMKV_get(store, keyName(args), "double") :
            Delegate(<<"getDouble">>, store, cryptKey,
                     IF ~r.hasValue THEN JsUndefined ELSE JsNumber(r.value.v), written)

\* MMKV.getString(key)
getString(args) ==
  /\ Called("getString", args)
  /\ IF ~keyArgOk(args) THEN Throw("JSError")
     ELSE \E r \in MMKV_get(store, keyName(args), "string") :
            Delegate(<<"getString">>, store, cryptKey,
                     IF ~r.hasValue THEN JsUndefined
                     ELSE JsString(createFromUtf8(r.value.v)), written)

\* MMKV.getBuffer(key)
getBuffer(args) ==
  /\ Called("getBuffer", args)
  /\ IF ~keyArgOk(args) THEN Throw("JSError")
     ELSE \E r \in MMKV_get(store, keyName(args), "bytes") :
            Delegate(<<"getBytes">>, store, cryptKey,
                     IF ~r.hasValue THEN JsUndefined ELSE JsArrayBuffer(r.value.v),
                     written)

\* MMKV.contains(key)
contains(args) ==
  /\ Called("contains", args)
  /\ IF ~keyArgOk(args) THEN Throw("JSError")
     ELSE Delegate(<<"containsKey">>, store, cryptKey,
                   JsBool(MMKV_containsKey(store, keyName(args))), written)

\* deleteEffect with clearAll called in place of removeValueForKey
deleteEffectClearAll(st, args) == MMKV_clearAll(st)

\* the content the delete branch leaves
deleteEffect(st, args) == MMKV_removeValueForKey(st, keyName(args))

\* MMKV.delete(key)
delete(args) ==
  /\ Called("delete", args)
  /\ IF ~keyArgOk(args) THEN Throw("JSError")
     ELSE Delegate(<<"removeValueForKey">>, deleteEffect(store, args), cryptKey,
                   JsUndefined, [written EXCEPT ![args[1].v] = NoWrite])

\* MMKV.getAllKeys()
getAllKeys(args) ==
  /\ Called("getAllKeys", args)
  /\ Delegate(<<"allKeys">>, store, cryptKey,
              JsArray({createFromUtf8(k) : k \in MMKV_allKeys(store)}), written)

\* MMKV.clearAll()
clearAll(args) ==
  /\ Called("clearAll", args)
  /\ Delegate(<<"clearAll">>, MMKV_clearAll(store), cryptKey, JsUndefined,
              [s \in JsStrings |-> NoWrite])

\* MMKV.recrypt(encryptionKey)
recrypt(args) ==
  /\ Called("recrypt", args)
  /\ IF recryptKey(args).throw THEN Throw("JSError")
     ELSE Delegate(<<"reKey">>, store, MMKV_reKey(recryptKey(args).key), JsUndefined,
                   written)

\* MMKV.trim()
trim(args) ==
  /\ Called("trim", args)
  /\ Delegate(trimOps, store, cryptKey, JsUndefined, written)

Next ==
  \/ \E config \in Configs, ret \in MMKV_mmkvWithID : MmkvHostObject(config, ret)
  \/ Destructor
  \/ \E propName \in PropNames : get(propName)
  \/ \E args \in NoArgLists : callNonFunction(args)
  \/ \E args \in SetArgLists : set(args)
  \/ \E args \in KeyArgLists : getBoolean(args)
  \/ \E args \in KeyArgLists : getNumber(args)
  \/ \E args \in KeyArgLists : getString(args)
  \/ \E args \in KeyArgLists : getBuffer(args)
  \/ \E args \in KeyArgLists : contains(args)
  \/ \E args \in KeyArgLists : delete(args)
  \/ \E args \in NoArgLists : getAllKeys(args)
  \/ \E args \in NoArgLists : clearAll(args)
  \/ \E args \in KeyArgLists : recrypt(args)
  \/ \E args \in NoArgLists : trim(args)

Spec == Init /\ [][Next]_vars

---------------------------------------------------------------------------
(* Properties *)

isCall(o, name) == o.kind = "call" /\ o.name = name

\* the getters and the type of value each one returns
getterType ==
  [getBoolean |-> "boolean", getNumber |-> "number", getString |-> "string",
   getBuffer |-> "ArrayBuffer"]
Getters == DOMAIN getterType
KeyFunctions == Getters \cup {"contains", "delete"}

\* C1: after the script obtains the property deleteAll and calls it, the store
\* holds no keys.
C1_DeleteAllEmptiesStore ==
  isCall(op, "deleteAll") => MMKV_allKeys(store) = {}

\* C2: a getter that returns for key k, when the value the script last stored
\* under k (with no delete or clear-all since) has the getter's type, returns
\* exactly that value: set then get is a round trip and the last write wins.
C2_SetGetRoundTrip ==
  (op.kind = "call" /\ op.name \in Getters /\ thrown = "none") =>
    LET k == op.args[1].v
    IN written[k].t = getterType[op.name] => result = written[k]

C2_Witness ==
  /\ isCall(op, "getString")
  /\ thrown = "none"
  /\ op.args = <<JsString(StrE)>>
  /\ written[StrE] = JsString(StrE)
  /\ result = JsString(StrE)
  /\ store[utf8(StrA)].t = "double"

\* an argument list whose shape the operation rejects
BadShape(o) ==
  /\ o.kind = "call"
  /\ \/ /\ o.name = "set"
        /\ \/ Len(o.args) # 2
           \/ o.args[1].t # "string"
           \/ o.args[2].t \notin {"boolean", "number", "string", "ArrayBuffer"}
     \/ /\ o.name \in KeyFunctions
        /\ (Len(o.args) # 1 \/ o.args[1].t # "string")
     \/ /\ o.name = "recrypt"
        /\ (Len(o.args) # 1 \/ o.args[1].t \notin {"string", "undefined"})

\* C3: a call whose arguments have the wrong count or type throws a script
\* exception, makes no engine call, and leaves every key, every value and the
\* encryption key unchanged.
C3_BadShapeThrowsAndKeepsStore ==
  [][BadShape(op') =>
       /\ thrown' = "JSError"
       /\ calls' = <<>>
       /\ store' = store
       /\ cryptKey' = cryptKey]_vars

C3_Witness ==
  /\ isCall(op, "set")
  /\ Len(op.args) = 2
  /\ op.args[2] = JsObject
  /\ thrown = "JSError"
  /\ MMKV_allKeys(store) # {}
  /\ cryptKey # <<>>

\* C4: construction with an empty id, or with an encryption key longer than 16
\* bytes, fails, whatever mmkvWithID returns.
C4_BadConfigFails ==
  (op.kind = "construct"
     /\ (op.args[1].id = "" \/ Len(op.args[1].encryptionKey) > EncKeyMax))
    => hostState = "failed"

\* C5 as stated: recrypt on a live host object with the key omitted or passed as
\* undefined returns without throwing and leaves the store without encryption.
C5_KeyOptional ==
  (isCall(op, "recrypt") /\ hostState = "alive"
     /\ (op.args = <<>> \/ op.args = <<JsUndefined>>))
    => (thrown = "none" /\ cryptKey = <<>>)

\* C5 amended: on a live host object recrypt called with undefined re-keys the
\* store to "no encryption", called with a string re-keys it with that string,
\* and called with no argument throws a script exception and keeps the key; in
\* every case the keys and their values are unchanged.
C5_RecryptOneArgument ==
  [][(isCall(op', "recrypt") /\ hostState = "alive") =>
       /\ store' = store
       /\ op'.args = <<JsUndefined>> => (thrown' = "none" /\ cryptKey' = <<>>)
       /\ (Len(op'.args) = 1 /\ op'.args[1].t = "string") =>
            (thrown' = "none" /\ cryptKey' = utf8(op'.args[1].v))
       /\ op'.args = <<>> => (thrown' = "JSError" /\ cryptKey' = cryptKey)]_vars

C5_Witness ==
  /\ isCall(op, "recrypt")
  /\ hostState = "alive"
  /\ op.args = <<JsUndefined>>
  /\ thrown = "none"
  /\ cryptKey = <<>>
  /\ MMKV_allKeys(store) = EngineKeys

\* the engine operation each operation of the surface stands for
engineOp ==
  [set |-> "set", getBoolean |-> "getBool", getNumber |-> "getDouble",
   getString |-> "getString", getBuffer |-> "getBytes", contains |-> "containsKey",
   delete |-> "removeValueForKey", getAllKeys |-> "allKeys", deleteAll |-> "clearAll",
   recrypt |-> "reKey", trim |-> "trim", size |-> "actualSize"]

\* an operation of the surface was invoked and returned
Succeeded ==
  /\ op.name \in DOMAIN engineOp
  /\ thrown = "none"
  /\ \/ op.kind = "call"
     \/ op.kind = "get" /\ op.name = "size"

\* C6 as stated: every successful invocation of an operation of the surface
\* performs exactly its one engine operation and no other.
C6_OneEngineCall ==
  Succeeded => calls = <<engineOp[op.name]>>

\* C6 amended: every successful invocation performs exactly its one engine
\* operation, except trim, which performs clearMemoryCache and then trim.
C6_OneEngineCallButTrim ==
  Succeeded =>
    calls = IF op.name = "trim" THEN <<"clearMemoryCache", "trim">>
            ELSE <<engineOp[op.name]>>

C6_Witness ==
  /\ isCall(op, "trim")
  /\ thrown = "none"
  /\ calls = <<"clearMemoryCache", "trim">>
  /\ MMKV_allKeys(store) # {}

\* C7: delete(k) that returns leaves k absent and every other key as it was; on
\* a live host object delete of any key, present or absent, does not throw, and
\* delete of an absent key changes nothing; for a key that was deleted or never
\* set the four getters return undefined, contains returns false and
\* getAllKeys does not list it.
C7_DeleteRemovesExactlyKey ==
  [][/\ (isCall(op', "delete") /\ thrown' = "none") =>
          LET k == utf8(op'.args[1].v)
          IN /\ store'[k] = Absent
             /\ \A j \in EngineKeys \ {k} : store'[j] = store[j]
             /\ cryptKey' = cryptKey
             /\ store[k] = Absent => store' = store
     /\ (isCall(op', "delete") /\ ~BadShape(op') /\ hostState = "alive") =>
          thrown' = "none"
     /\ (op'.kind = "call" /\ op'.name \in Getters /\ thrown' = "none"
           /\ written[op'.args[1].v] = NoWrite) => result' = JsUndefined
     /\ (isCall(op', "contains") /\ thrown' = "none"
           /\ written[op'.args[1].v] = NoWrite) => result' = JsBool(FALSE)
     /\ (isCall(op', "getAllKeys") /\ thrown' = "none") =>
          \A s \in JsStrings : written[s] = NoWrite => s \notin result'.v]_vars

C7_Witness ==
  /\ isCall(op, "delete")
  /\ thrown = "none"
  /\ op.args = <<JsString(StrE)>>
  /\ store[utf8(StrE)] = Absent
  /\ store[utf8(StrA)] # Absent
  /\ written[StrA] # NoWrite

\* C8: a name is returned by getPropertyNames exactly when get resolves it to a
\* value other than undefined.
C8_DispatchMatchesNames ==
  op.kind = "get" =>
    ((\E i \in 1..Len(getPropertyNames) : getPropertyNames[i] = op.name)
       <=> result # JsUndefined)

\* C9: a read of size returns a non-negative number equal to the size_t that
\* actualSize reported.
C9_SizeIsActualSize ==
  (op.kind = "get" /\ op.name = "size") =>
    (result.v >= 0 /\ sizeOfNumber(result.v) = sizeRead)

\* C10: no operation reads the instance of a destroyed host object, and a live
\* host object's instance is never null.
C10_NoUseAfterDestroy ==
  /\ ~derefDead
  /\ hostState = "alive" => instance # "nullptr"

=============================================================================
